---- MODULE Spec2Model ----
(***************************************************************************)
(* Badgagotchi (src/app.py): the pet simulation and its lifecycle.         *)
(*                                                                         *)
(* The variables are the fields of the Badgagotchi object, the latched     *)
(* button state it reads, the wall clock it reads through time.time(),     *)
(* and what it asks of its host (minimise, the ambient LED pattern, the    *)
(* high-score file).  update and background_update are one action each,    *)
(* translated statement by statement.                                      *)
(*                                                                         *)
(* Not modelled: draw (it writes no field) and the colours written to      *)
(* tildagonos.leds.  Of _update_eye_animation, which reads and writes only *)
(* blink_* and eye_look_* fields that no other method but draw reads, the  *)
(* model keeps whether the last handler call ran it.                       *)
(***************************************************************************)
EXTENDS Integers, FiniteSets, Sequences, TLC

VARIABLES
    hunger, happiness, poo,          \* core stats
    tick_counter,
    buttons,                         \* button_states: the latched presses
    status_message,
    game_over, death_reason, app_should_close,
    show_intro,
    led_brightness, led_direction, led_warning_active,
    high_score_seconds, game_start_time, time_alive_seconds, is_new_high_score,
    now,                             \* time.time(), in whole seconds
    foreground,                      \* the host runs update (TRUE) or background_update
    pattern,                         \* the ambient LED pattern is enabled
    save_calls,                      \* calls of _save_high_score in the current life
    eye_updated,                     \* the last handler call ran _update_eye_animation
    budget                           \* inputs the environment may still deliver

vars == << hunger, happiness, poo, tick_counter, buttons, status_message,
           game_over, death_reason, app_should_close, show_intro,
           led_brightness, led_direction, led_warning_active,
           high_score_seconds, game_start_time, time_alive_seconds,
           is_new_high_score, now, foreground, pattern, save_calls, eye_updated,
           budget >>

----------------------------------------------------------------------------
(* Program constants *)

MAX_STAT == 100
MIN_STAT == 0
TICK_RATE == 50
POO_THRESHOLD == 50

None == -1                           \* game_start_time = None

ButtonNames == {"UP", "RIGHT", "CONFIRM", "CANCEL"}

HUNGER_DEATH     == "Died of Hunger"
OVERFED_DEATH    == "Oof That's too much food"
SAD_DEATH        == "Got too sad"
EXHAUSTED_DEATH  == "Died of exhaustion"
POO_DEATH        == "Covered in poo"

----------------------------------------------------------------------------
(* Bounds of the environment *)

MaxNow == 1          \* the clock is followed up to this many seconds
MaxBest == 1         \* the best time found in highscore.json is 0..MaxBest
MaxFeeds == 2        \* presses of Up in a feeding session
MaxPlays == 5        \* presses of Right in a playing session
MaxAttended == 1     \* points of hunger lost before the player leaves the pet alone

Max(a, b) == IF a >= b THEN a ELSE b
Min(a, b) == IF a <= b THEN a ELSE b

Inputs == ButtonNames \cup {"LAUNCH", "SECOND"}

Session(up, right, confirm, cancel, launch, seconds) ==
    [e \in Inputs |-> CASE e = "UP" -> up
                        [] e = "RIGHT" -> right
                        [] e = "CONFIRM" -> confirm
                        [] e = "CANCEL" -> cancel
                        [] e = "LAUNCH" -> launch
                        [] e = "SECOND" -> seconds]

(* The sessions explored: how often the player presses each button and     *)
(* reopens the app, and for how many seconds the wall clock is followed.   *)
(* Each is followed for as long as ticks are delivered.                    *)
Sessions ==
    { Session(0, 0, 0, 1, 1, 0),             \* closed on the intro screen, left in the background
      Session(0, 0, 2, 0, 0, MaxNow),        \* started, cleaned or restarted, app kept open
      Session(0, 0, 1, 1, 0, MaxNow),        \* started, then minimised
      Session(MaxFeeds, 0, 1, 0, 0, 0),      \* started, then fed
      Session(0, MaxPlays, 1, 0, 0, 0),      \* started, then played with
      Session(0, 0, 0, 2, 1, 0),             \* closed on the intro screen, reopened, closed again
      Session(1, 1, 1, 1, 0, 0),             \* Up, Right and Cancel, alone or together
      Session(1, 0, 2, 0, 0, 0),             \* Up and Confirm, alone or together
      Session(0, 1, 2, 0, 0, 0) }            \* Right and Confirm, alone or together

----------------------------------------------------------------------------
(* The object as a record, so that the methods compose as in the source *)

Self ==
    [ hunger |-> hunger, happiness |-> happiness, poo |-> poo,
      tick_counter |-> tick_counter, buttons |-> buttons,
      status_message |-> status_message, game_over |-> game_over,
      death_reason |-> death_reason, app_should_close |-> app_should_close,
      show_intro |-> show_intro, led_brightness |-> led_brightness,
      led_direction |-> led_direction, led_warning_active |-> led_warning_active,
      high_score_seconds |-> high_score_seconds,
      game_start_time |-> game_start_time,
      time_alive_seconds |-> time_alive_seconds,
      is_new_high_score |-> is_new_high_score,
      pattern |-> pattern, save_calls |-> save_calls, minimised |-> FALSE,
      eye_updated |-> FALSE ]

Commit(s) ==
    /\ hunger' = s.hunger
    /\ happiness' = s.happiness
    /\ poo' = s.poo
    /\ tick_counter' = s.tick_counter
    /\ buttons' = s.buttons
    /\ status_message' = s.status_message
    /\ game_over' = s.game_over
    /\ death_reason' = s.death_reason
    /\ app_should_close' = s.app_should_close
    /\ show_intro' = s.show_intro
    /\ led_brightness' = s.led_brightness
    /\ led_direction' = s.led_direction
    /\ led_warning_active' = s.led_warning_active
    /\ high_score_seconds' = s.high_score_seconds
    /\ game_start_time' = s.game_start_time
    /\ time_alive_seconds' = s.time_alive_seconds
    /\ is_new_high_score' = s.is_new_high_score
    /\ pattern' = s.pattern
    /\ save_calls' = s.save_calls
    /\ eye_updated' = s.eye_updated
    /\ foreground' = IF s.minimised THEN FALSE ELSE foreground

----------------------------------------------------------------------------
(* LED helpers *)

\* _trigger_led_warning
TriggerLedWarning(s) ==
    [s EXCEPT !.led_warning_active = TRUE, !.pattern = FALSE]

\* the test of _check_for_warnings
Critical(s) ==
    \/ s.hunger <= 20 \/ s.hunger >= 80
    \/ s.happiness <= 20 \/ s.happiness >= 80
    \/ s.poo >= 80

\* _check_for_warnings
CheckForWarnings(s) ==
    IF s.led_warning_active \/ s.game_over THEN s
    ELSE IF Critical(s) THEN TriggerLedWarning(s) ELSE s

\* danger_level of _update_led_warning, times 20
DangerLevel(s) ==
    LET hunger_danger == Max(Max(0, 20 - s.hunger), Max(0, s.hunger - 80))
        happiness_danger == Max(Max(0, 20 - s.happiness), Max(0, s.happiness - 80))
        poo_danger == Max(0, s.poo - 80)
    IN Max(hunger_danger, Max(happiness_danger, poo_danger))

\* _update_led_warning
UpdateLedWarning(s) ==
    IF ~s.led_warning_active THEN s
    ELSE IF DangerLevel(s) = 0
         THEN [s EXCEPT !.led_warning_active = FALSE, !.pattern = TRUE]
         ELSE s

\* StartGameOverLeds that leaves a lit warning on
StartGameOverLedsKeepsWarning(s) ==
    [s EXCEPT !.pattern = FALSE, !.led_brightness = 0, !.led_direction = 1]

\* _start_game_over_leds
StartGameOverLeds(s) ==
    [s EXCEPT !.led_warning_active = FALSE, !.pattern = FALSE,
              !.led_brightness = 0, !.led_direction = 1]

\* UpdateGameOverLeds that starts again from 0 at the top instead of
\* turning round
UpdateGameOverLedsWraps(s) ==
    LET b == s.led_brightness + s.led_direction * 5 IN
    IF b >= 255 THEN [s EXCEPT !.led_brightness = 0, !.led_direction = 1]
    ELSE IF b <= 0 THEN [s EXCEPT !.led_brightness = 0, !.led_direction = 1]
    ELSE [s EXCEPT !.led_brightness = b]

\* _update_game_over_leds
UpdateGameOverLeds(s) ==
    LET b == s.led_brightness + s.led_direction * 5 IN
    IF b >= 255 THEN [s EXCEPT !.led_brightness = 255, !.led_direction = -1]
    ELSE IF b <= 0 THEN [s EXCEPT !.led_brightness = 0, !.led_direction = 1]
    ELSE [s EXCEPT !.led_brightness = b]

\* _stop_game_over_leds
StopGameOverLeds(s) == [s EXCEPT !.pattern = TRUE]

----------------------------------------------------------------------------
(* Death check and decay *)

\* DeathCause with the poo test moved to the head of the chain
DeathCausePooFirst(h, p, o) ==
    IF o >= MAX_STAT THEN POO_DEATH
    ELSE IF h <= MIN_STAT THEN HUNGER_DEATH
    ELSE IF h >= MAX_STAT THEN OVERFED_DEATH
    ELSE IF p <= MIN_STAT THEN SAD_DEATH
    ELSE IF p >= MAX_STAT THEN EXHAUSTED_DEATH
    ELSE ""

\* the if/elif chain of _check_game_over; "" when no condition holds
DeathCause(h, p, o) ==
    IF h <= MIN_STAT THEN HUNGER_DEATH
    ELSE IF h >= MAX_STAT THEN OVERFED_DEATH
    ELSE IF p <= MIN_STAT THEN SAD_DEATH
    ELSE IF p >= MAX_STAT THEN EXHAUSTED_DEATH
    ELSE IF o >= MAX_STAT THEN POO_DEATH
    ELSE ""

\* TrackHighScore with >= for >: a tie counts as a new record
TrackHighScoreOnTie(s, t) ==
    IF s.game_start_time = None THEN s
    ELSE LET alive == t - s.game_start_time IN
         IF alive >= s.high_score_seconds
         THEN [s EXCEPT !.time_alive_seconds = alive,
                        !.is_new_high_score = TRUE,
                        !.save_calls = @ + 1,
                        !.high_score_seconds = alive]
         ELSE [s EXCEPT !.time_alive_seconds = alive]

\* the high score tracking of _check_game_over, at time t
TrackHighScore(s, t) ==
    IF s.game_start_time = None THEN s
    ELSE LET alive == t - s.game_start_time IN
         IF alive > s.high_score_seconds
         THEN [s EXCEPT !.time_alive_seconds = alive,
                        !.is_new_high_score = TRUE,
                        !.save_calls = @ + 1,
                        !.high_score_seconds = alive]
         ELSE [s EXCEPT !.time_alive_seconds = alive]

\* _check_game_over
CheckGameOver(s, t) ==
    LET cause == DeathCause(s.hunger, s.happiness, s.poo) IN
    IF cause = "" THEN s
    ELSE TrackHighScore(
             StartGameOverLeds([s EXCEPT !.game_over = TRUE,
                                         !.death_reason = cause]), t)

Clamp(v) == Max(MIN_STAT, Min(MAX_STAT, v))

\* DecayStats without the floor on hunger and the final clamp
DecayStatsNoFloor(s, hunger_decay, happiness_decay, poo_growth) ==
    LET h == s.hunger - hunger_decay
        p0 == Max(MIN_STAT, s.happiness - happiness_decay)
        o == Min(MAX_STAT, s.poo + poo_growth)
        p1 == IF h < 30 THEN Max(MIN_STAT, p0 - 5) ELSE p0
        p2 == IF o > POO_THRESHOLD THEN Max(MIN_STAT, p1 - 5) ELSE p1
    IN [s EXCEPT !.hunger = h, !.happiness = p2, !.poo = o]

\* DecayStats with the penalties evaluated on the hunger and poo of before
\* the decay
DecayStatsPenaltyOnOldStats(s, hunger_decay, happiness_decay, poo_growth) ==
    LET h == Max(MIN_STAT, s.hunger - hunger_decay)
        p0 == Max(MIN_STAT, s.happiness - happiness_decay)
        o == Min(MAX_STAT, s.poo + poo_growth)
        p1 == IF s.hunger < 30 THEN Max(MIN_STAT, p0 - 5) ELSE p0
        p2 == IF s.poo > POO_THRESHOLD THEN Max(MIN_STAT, p1 - 5) ELSE p1
    IN [s EXCEPT !.hunger = Clamp(h), !.happiness = Clamp(p2), !.poo = Clamp(o)]

\* the stat arithmetic of _process_decay
DecayStats(s, hunger_decay, happiness_decay, poo_growth) ==
    LET h == Max(MIN_STAT, s.hunger - hunger_decay)
        p0 == Max(MIN_STAT, s.happiness - happiness_decay)
        o == Min(MAX_STAT, s.poo + poo_growth)
        p1 == IF h < 30 THEN Max(MIN_STAT, p0 - 5) ELSE p0
        p2 == IF o > POO_THRESHOLD THEN Max(MIN_STAT, p1 - 5) ELSE p1
    IN [s EXCEPT !.hunger = Clamp(h), !.happiness = Clamp(p2), !.poo = Clamp(o)]

\* _process_decay
ProcessDecay(s, hunger_decay, happiness_decay, poo_growth, t) ==
    CheckGameOver(DecayStats(s, hunger_decay, happiness_decay, poo_growth), t)

----------------------------------------------------------------------------
(* background_update *)

\* BackgroundUpdate that counts the ticks but applies no decay
BackgroundUpdateNoDecay(s, t) ==
    IF s.app_should_close THEN s
    ELSE LET s1 == IF s.led_warning_active THEN UpdateLedWarning(s) ELSE s
             s2 == [s1 EXCEPT !.tick_counter = @ + 1]
         IN IF s2.tick_counter >= TICK_RATE
            THEN CheckForWarnings([s2 EXCEPT !.tick_counter = 0])
            ELSE s2

BackgroundUpdate(s, t) ==
    IF s.app_should_close THEN s
    ELSE LET s1 == IF s.led_warning_active THEN UpdateLedWarning(s) ELSE s
             s2 == [s1 EXCEPT !.tick_counter = @ + 1]
         IN IF s2.tick_counter >= TICK_RATE
            THEN CheckForWarnings(
                     ProcessDecay([s2 EXCEPT !.tick_counter = 0], 1, 1, 2, t))
            ELSE s2

----------------------------------------------------------------------------
(* update *)

ClearButtons(s) == [s EXCEPT !.buttons = {}]

\* CancelExit that leaves a lit warning alone
CancelExitKeepsWarning(s) ==
    LET s1 == ClearButtons(s)
        s2 == IF s1.game_over THEN StopGameOverLeds(s1) ELSE s1
    IN [s2 EXCEPT !.minimised = TRUE]

\* the Cancel branch at the head of update
CancelExit(s) ==
    LET s1 == ClearButtons(s)
        s2 == IF s1.game_over THEN StopGameOverLeds(s1) ELSE s1
        s3 == IF s2.led_warning_active
              THEN [s2 EXCEPT !.led_warning_active = FALSE, !.pattern = TRUE]
              ELSE s2
    IN [s3 EXCEPT !.minimised = TRUE]

\* the intro screen branch
IntroScreen(s, t) ==
    IF "CONFIRM" \in s.buttons
    THEN [ClearButtons(s) EXCEPT !.show_intro = FALSE,
                                 !.game_start_time = t,
                                 !.is_new_high_score = FALSE]
    ELSE IF "CANCEL" \in s.buttons
    THEN [ClearButtons(s) EXCEPT !.app_should_close = TRUE, !.minimised = TRUE]
    ELSE s

\* Restart that forgets to reset time_alive_seconds
RestartKeepsTimeAlive(s, t) ==
    [StopGameOverLeds(ClearButtons(s)) EXCEPT
        !.hunger = 70, !.happiness = 70, !.poo = 0,
        !.game_over = FALSE, !.death_reason = "",
        !.status_message = "Hi There!", !.tick_counter = 0,
        !.game_start_time = t,
        !.is_new_high_score = FALSE, !.save_calls = 0]

\* the reset on Confirm in the game-over branch
Restart(s, t) ==
    [StopGameOverLeds(ClearButtons(s)) EXCEPT
        !.hunger = 70, !.happiness = 70, !.poo = 0,
        !.game_over = FALSE, !.death_reason = "",
        !.status_message = "Hi There!", !.tick_counter = 0,
        !.game_start_time = t, !.time_alive_seconds = 0,
        !.is_new_high_score = FALSE, !.save_calls = 0]

\* the game-over screen branch
GameOverScreen(s, t) ==
    LET s1 == UpdateGameOverLeds(s) IN
    IF "CONFIRM" \in s1.buttons THEN Restart(s1, t)
    ELSE IF "CANCEL" \in s1.buttons
    THEN [StopGameOverLeds(ClearButtons(s1)) EXCEPT
              !.app_should_close = TRUE, !.minimised = TRUE]
    ELSE s1

\* DecayMessage that looks at boredom before the poo level
DecayMessageBoredFirst(s) ==
    IF s.hunger < 30 THEN "I'm hungry!"
    ELSE IF s.happiness < 30 THEN "Urgh, I'm Bored!"
    ELSE IF s.poo > POO_THRESHOLD THEN "I'm gunna Poo!"
    ELSE "This is Great!"

\* the status message chosen after a foreground decay
DecayMessage(s) ==
    IF s.hunger < 30 THEN "I'm hungry!"
    ELSE IF s.poo > POO_THRESHOLD THEN "I'm gunna Poo!"
    ELSE IF s.happiness < 30 THEN "Urgh, I'm Bored!"
    ELSE "This is Great!"

\* ForegroundDecay that fires one tick late, above TICK_RATE
ForegroundDecayLate(s, t) ==
    LET s1 == [s EXCEPT !.tick_counter = @ + 1] IN
    IF s1.tick_counter > TICK_RATE
    THEN LET s2 == ProcessDecay([s1 EXCEPT !.tick_counter = 0], 2, 2, 3, t) IN
         IF ~s2.game_over THEN [s2 EXCEPT !.status_message = DecayMessage(s2)]
         ELSE s2
    ELSE s1

\* the time-based decay of a foreground tick
ForegroundDecay(s, t) ==
    LET s1 == [s EXCEPT !.tick_counter = @ + 1] IN
    IF s1.tick_counter >= TICK_RATE
    THEN LET s2 == ProcessDecay([s1 EXCEPT !.tick_counter = 0], 2, 2, 3, t) IN
         IF ~s2.game_over THEN [s2 EXCEPT !.status_message = DecayMessage(s2)]
         ELSE s2
    ELSE s1

\* _update_eye_animation: the blink and look fields move on by one frame
UpdateEyeAnimation(s) == [s EXCEPT !.eye_updated = TRUE]

\* Feed that clamps hunger but runs no death check
FeedNoDeathCheck(s, t) ==
    LET s1 == [ClearButtons(s) EXCEPT !.hunger = Min(MAX_STAT, @ + 15)]
        s3 == [s1 EXCEPT !.poo = Min(MAX_STAT, @ + 5)]
    IN IF ~s3.game_over THEN [s3 EXCEPT !.status_message = "Yum!"] ELSE s3

\* UP: Feed
Feed(s, t) ==
    LET s1 == [ClearButtons(s) EXCEPT !.hunger = @ + 15]
        s2 == IF s1.hunger >= MAX_STAT
              THEN CheckGameOver([s1 EXCEPT !.hunger = MAX_STAT], t)
              ELSE s1
        s3 == [s2 EXCEPT !.poo = Min(MAX_STAT, @ + 5)]
    IN IF ~s3.game_over THEN [s3 EXCEPT !.status_message = "Yum!"] ELSE s3

\* RIGHT: Play
Play(s, t) ==
    LET s1 == [ClearButtons(s) EXCEPT !.happiness = @ + 15]
        s2 == IF s1.happiness >= MAX_STAT
              THEN CheckGameOver([s1 EXCEPT !.happiness = MAX_STAT], t)
              ELSE s1
        s3 == [s2 EXCEPT !.hunger = Max(MIN_STAT, @ - 10)]
    IN IF ~s3.game_over THEN [s3 EXCEPT !.status_message = "Haha! Woo!"] ELSE s3

\* Clean that rewards the pet whatever the poo level
CleanAlwaysRewards(s) ==
    [ClearButtons(s) EXCEPT !.happiness = Min(MAX_STAT, @ + 10),
                            !.status_message = "Ahhh, clean.",
                            !.poo = 0]

\* CONFIRM: Clean
Clean(s) ==
    LET s1 == ClearButtons(s)
        s2 == IF s1.poo > POO_THRESHOLD
              THEN [s1 EXCEPT !.happiness = Min(MAX_STAT, @ + 10),
                              !.status_message = "Ahhh, clean."]
              ELSE [s1 EXCEPT !.happiness = Max(MIN_STAT, @ - 5),
                              !.status_message = "Already clean!"]
    IN [s2 EXCEPT !.poo = 0]

\* UserActions that looks at Right before Up
UserActionsRightFirst(s, t) ==
    IF "RIGHT" \in s.buttons THEN Play(s, t)
    ELSE IF "UP" \in s.buttons THEN Feed(s, t)
    ELSE IF "CONFIRM" \in s.buttons THEN Clean(s)
    ELSE s

\* the user actions at the end of update
UserActions(s, t) ==
    IF "UP" \in s.buttons THEN Feed(s, t)
    ELSE IF "RIGHT" \in s.buttons THEN Play(s, t)
    ELSE IF "CONFIRM" \in s.buttons THEN Clean(s)
    ELSE s

\* update
Update(s, t) ==
    IF "CANCEL" \in s.buttons THEN CancelExit(s)
    ELSE IF s.show_intro THEN IntroScreen(s, t)
    ELSE IF s.game_over THEN GameOverScreen(s, t)
    ELSE UserActions(UpdateEyeAnimation(ForegroundDecay(s, t)), t)

----------------------------------------------------------------------------
(* The state machine *)

\* the fields as __init__ leaves them
Constructed ==
    /\ hunger = 70
    /\ happiness = 70
    /\ poo = 0
    /\ tick_counter = 0
    /\ buttons = {}
    /\ status_message = "Hi There!"
    /\ game_over = FALSE
    /\ death_reason = ""
    /\ app_should_close = FALSE
    /\ show_intro = TRUE
    /\ led_brightness = 0
    /\ led_direction = 1
    /\ led_warning_active = FALSE
    /\ high_score_seconds \in 0..MaxBest      \* _load_high_score
    /\ game_start_time = None
    /\ time_alive_seconds = 0
    /\ is_new_high_score = FALSE
    /\ now = 0
    /\ foreground = TRUE
    /\ pattern = TRUE
    /\ save_calls = 0
    /\ eye_updated = FALSE

Init ==
    /\ Constructed
    /\ budget \in Sessions
    \* a stored best above every elapsed time of the session is never beaten:
    \* one such value stands for all of them
    /\ high_score_seconds <= budget["SECOND"]

\* the host calls update(delta) on the foreground app
update ==
    /\ foreground
    /\ Commit(Update(Self, now))
    /\ UNCHANGED << now, budget >>

\* the host calls background_update(delta) on the minimised app
background_update ==
    /\ ~foreground
    /\ Commit(BackgroundUpdate(Self, now))
    /\ UNCHANGED << now, budget >>

\* a button goes down while the app has the focus
Press(b) ==
    /\ foreground
    /\ budget[b] > 0
    /\ b \notin buttons
    /\ buttons' = buttons \cup {b}
    /\ budget' = [budget EXCEPT ![b] = @ - 1]
    /\ UNCHANGED << hunger, happiness, poo, tick_counter, status_message,
                    game_over, death_reason, app_should_close, show_intro,
                    led_brightness, led_direction, led_warning_active,
                    high_score_seconds, game_start_time, time_alive_seconds,
                    is_new_high_score, now, foreground, pattern, save_calls,
                    eye_updated >>

PressButton == \E b \in ButtonNames : Press(b)

\* the player reopens the minimised app
Launch ==
    /\ ~foreground
    /\ budget["LAUNCH"] > 0
    /\ foreground' = TRUE
    /\ budget' = [budget EXCEPT !["LAUNCH"] = @ - 1]
    /\ UNCHANGED << hunger, happiness, poo, tick_counter, buttons, status_message,
                    game_over, death_reason, app_should_close, show_intro,
                    led_brightness, led_direction, led_warning_active,
                    high_score_seconds, game_start_time, time_alive_seconds,
                    is_new_high_score, now, pattern, save_calls, eye_updated >>

\* a second passes on the wall clock
AdvanceClock ==
    /\ budget["SECOND"] > 0
    /\ now' = now + 1
    /\ budget' = [budget EXCEPT !["SECOND"] = @ - 1]
    /\ UNCHANGED << hunger, happiness, poo, tick_counter, buttons, status_message,
                    game_over, death_reason, app_should_close, show_intro,
                    led_brightness, led_direction, led_warning_active,
                    high_score_seconds, game_start_time, time_alive_seconds,
                    is_new_high_score, foreground, pattern, save_calls,
                    eye_updated >>

Next ==
    \/ update
    \/ background_update
    \/ PressButton
    \/ Launch
    \/ AdvanceClock

Spec == Init /\ [][Next]_vars

(* The unattended pet.  The player starts the game, may minimise the app   *)
(* and reopen it, and is around only while the pet has lost at most         *)
(* MaxAttended points of hunger; from then on nothing is pressed and the    *)
(* host goes on delivering ticks.                                           *)
LiveSessions == { Session(0, 0, 1, 1, 1, 0) }

Attended == hunger >= 70 - MaxAttended

LiveInit ==
    /\ Constructed
    /\ budget \in LiveSessions
    /\ high_score_seconds <= budget["SECOND"]

LiveNext ==
    \/ update
    \/ background_update
    \/ Attended /\ PressButton
    \/ Attended /\ Launch

\* the host calls update every 0.05 s while the app is in the foreground and
\* background_update every 0.05 s while it is minimised
LiveSpec ==
    /\ LiveInit /\ [][LiveNext]_vars
    /\ WF_vars(update) /\ WF_vars(background_update)

----------------------------------------------------------------------------
(* Steps of the two handlers *)

\* Press, Launch and AdvanceClock each spend from budget and the two handlers
\* leave it alone: a step that keeps budget is a call of update when the app
\* is in the foreground and of background_update when it is minimised
ForegroundTick == foreground /\ budget' = budget
BackgroundTick == ~foreground /\ budget' = budget

\* the steps that keep budget are the handler calls
TicksAreHandlerCalls ==
    [][/\ ForegroundTick => update
       /\ BackgroundTick => background_update]_vars

\* this tick brings tick_counter to TICK_RATE
DecayTick == tick_counter + 1 >= TICK_RATE

\* a foreground tick on the playing screen that Cancel does not pre-empt
PlayingTick ==
    ForegroundTick /\ ~show_intro /\ ~game_over /\ "CANCEL" \notin buttons

\* a background tick that applies decay
BackgroundDecayTick == BackgroundTick /\ ~app_should_close /\ DecayTick

\* a foreground tick that applies decay and consumes no action
ForegroundDecayTick == PlayingTick /\ DecayTick /\ buttons = {}

----------------------------------------------------------------------------
(* Claims *)

StatRange == MIN_STAT..MAX_STAT

\* C1: in every reachable state, that is after any update or
\* background_update call has returned under any interleaving of ticks and
\* button presses, hunger, happiness and poo are each within [0,100].
C1_StatsInRange ==
    /\ hunger \in StatRange
    /\ happiness \in StatRange
    /\ poo \in StatRange

\* C1 witness: decay has driven hunger and happiness to the floor and poo to
\* the ceiling, so all three clamps have acted.
C1_Witness ==
    /\ hunger = MIN_STAT /\ happiness = MIN_STAT /\ poo = MAX_STAT
    /\ tick_counter > 0

\* C2 (as claimed): game over is entered only from Playing: in every step
\* where game_over goes from false to true, show_intro is false.
C2_GameOverOnlyFromPlaying ==
    [][(~game_over /\ game_over') => ~show_intro]_vars

\* C3 (as claimed): once game_over is true, death_reason keeps its value
\* through every later tick and button press until a restart clears it.
C3_OneCausePerDeath ==
    [][(game_over /\ game_over') => death_reason' = death_reason]_vars

\* C4 (as claimed): after game_over has become true, later ticks do not
\* change time_alive_seconds, high_score_seconds or is_new_high_score, and
\* _save_high_score is called at most once in a life.
C4_BookkeepingOncePerLife ==
    [][/\ (game_over /\ game_over' /\ ~show_intro) =>
            /\ time_alive_seconds' = time_alive_seconds
            /\ high_score_seconds' = high_score_seconds
            /\ is_new_high_score' = is_new_high_score
       /\ save_calls' <= 1]_vars

\* the death conditions in the order the claim fixes
FirstCauseInOrder(h, p, o) ==
    CASE h <= 0 -> HUNGER_DEATH
      [] h > 0 /\ h >= 100 -> OVERFED_DEATH
      [] h > 0 /\ h < 100 /\ p <= 0 -> SAD_DEATH
      [] h > 0 /\ h < 100 /\ p > 0 /\ p >= 100 -> EXHAUSTED_DEATH
      [] h > 0 /\ h < 100 /\ p > 0 /\ p < 100 /\ o >= 100 -> POO_DEATH
      [] OTHER -> ""

DeathConditions(h, p, o) ==
    {c \in 1..5 : \/ c = 1 /\ h <= 0
                  \/ c = 2 /\ h >= 100
                  \/ c = 3 /\ p <= 0
                  \/ c = 4 /\ p >= 100
                  \/ c = 5 /\ o >= 100}

\* C5: whenever the death check runs (at the end of a decay) in a state where
\* several death conditions hold at once, the recorded death_reason is the
\* first one in the order hunger<=0, hunger>=100, happiness<=0,
\* happiness>=100, poo>=100; with hunger = 0 and poo = 100 it is starvation.
C5_DeathCausePriority ==
    [][(BackgroundDecayTick \/ ForegroundDecayTick) =>
          /\ Cardinality(DeathConditions(hunger', happiness', poo')) >= 2
                => death_reason' = FirstCauseInOrder(hunger', happiness', poo')
          /\ (hunger' = 0 /\ poo' = 100) => death_reason' = HUNGER_DEATH]_vars

\* C5 witness: a decay has run the death check with hunger = 0 and poo = 100
\* together, and starvation is the recorded cause.
C5_Witness ==
    /\ hunger = 0 /\ poo = MAX_STAT /\ tick_counter = 0
    /\ game_over /\ death_reason = HUNGER_DEATH

\* the stats a foreground tick hands to the user action: after its decay, if any
HungerAtAction == IF DecayTick THEN Max(0, hunger - 2) ELSE hunger
PooAtAction == IF DecayTick THEN Min(100, poo + 3) ELSE poo
HappinessAtAction ==
    IF DecayTick
    THEN LET p0 == Max(0, happiness - 2)
             p1 == IF HungerAtAction < 30 THEN Max(0, p0 - 5) ELSE p0
         IN IF PooAtAction > 50 THEN Max(0, p1 - 5) ELSE p1
    ELSE happiness

FeedTick == PlayingTick /\ "UP" \in buttons
PlayTick == PlayingTick /\ "UP" \notin buttons /\ "RIGHT" \in buttons
CleanTick == PlayingTick /\ buttons = {"CONFIRM"}

\* C6: Feed in Playing with hunger + 15 >= 100 ends the tick with game_over
\* true, cause Overfed and hunger exactly 100; the poo += 5 applied afterwards
\* does not change the recorded cause.
C6_OverfeedKills ==
    [][(FeedTick /\ HungerAtAction + 15 >= 100) =>
          /\ game_over'
          /\ death_reason' = OVERFED_DEATH
          /\ hunger' = 100
          /\ poo' = Min(100, PooAtAction + 5)]_vars

\* C6 witness: the pet was fed at hunger 85 and the tick has returned.
C6_Witness ==
    /\ game_over /\ death_reason = OVERFED_DEATH /\ hunger = 100
    /\ budget["UP"] = 0 /\ buttons = {}

\* C7 (as claimed): Play in any reachable Playing state with
\* happiness + 15 >= 100 ends the tick with game_over true, happiness exactly
\* 100 and cause Exhausted, whatever hunger and poo are.  Stated for the
\* ticks that apply no decay, where the stats are the ones the tick began with.
C7_OverplayExhausts ==
    [][(PlayTick /\ ~DecayTick /\ happiness + 15 >= 100) =>
          /\ game_over'
          /\ happiness' = 100
          /\ death_reason' = EXHAUSTED_DEATH]_vars

\* C8: Clean in Playing: if poo > 50 before the action, happiness becomes
\* min(100, happiness + 10), otherwise max(0, happiness - 5); in both
\* branches poo is 0 afterwards and the action leaves hunger alone.
C8_Clean ==
    [][CleanTick =>
          /\ happiness' = IF PooAtAction > 50
                          THEN Min(100, HappinessAtAction + 10)
                          ELSE Max(0, HappinessAtAction - 5)
          /\ poo' = 0
          /\ hunger' = HungerAtAction]_vars

\* C8 witness: the pet was cleaned while dirty (the rewarded branch) and the
\* tick has returned.
C8_Witness ==
    /\ status_message = "Ahhh, clean." /\ poo = 0 /\ ~game_over

\* C9: a foreground tick with Confirm and no Cancel on the game-over screen
\* leaves hunger = 70, happiness = 70, poo = 0, tick_counter = 0, game_over
\* false, death_reason empty, time_alive_seconds = 0, is_new_high_score false
\* and game_start_time = now, with high_score_seconds unchanged.
C9_Restart ==
    [][(ForegroundTick /\ ~show_intro /\ game_over
            /\ "CONFIRM" \in buttons /\ "CANCEL" \notin buttons) =>
          /\ hunger' = 70 /\ happiness' = 70 /\ poo' = 0
          /\ tick_counter' = 0
          /\ ~game_over' /\ death_reason' = ""
          /\ time_alive_seconds' = 0 /\ ~is_new_high_score'
          /\ game_start_time' = now
          /\ high_score_seconds' = high_score_seconds]_vars

\* C9 witness: in the session of two Confirm presses both are spent (the
\* second on the game-over screen), the first life left a best above zero,
\* and a second life has just begun with fresh stats and a restarted clock.
C9_Witness ==
    /\ ~show_intro /\ ~game_over /\ foreground /\ buttons = {}
    /\ \A e \in Inputs : budget[e] = 0
    /\ hunger = 70 /\ happiness = 70 /\ poo = 0 /\ tick_counter = 0
    /\ high_score_seconds > 0 /\ game_start_time = now /\ now > 0
    /\ time_alive_seconds = 0 /\ death_reason = ""

\* C10: at the step where a life ends with a running clock, with
\* elapsed = now - game_start_time: if elapsed > high_score_seconds then
\* is_new_high_score becomes true and high_score_seconds becomes elapsed;
\* otherwise is_new_high_score stays false and high_score_seconds is
\* unchanged.  high_score_seconds never decreases.
C10_HighScoreAtDeath ==
    [][/\ (~game_over /\ game_over' /\ game_start_time # None) =>
            IF now - game_start_time > high_score_seconds
            THEN is_new_high_score' /\ high_score_seconds' = now - game_start_time
            ELSE /\ ~is_new_high_score /\ ~is_new_high_score'
                 /\ high_score_seconds' = high_score_seconds
       /\ high_score_seconds' >= high_score_seconds]_vars

\* C10 witness: a life has ended after a positive time that beat the stored
\* best.
C10_Witness ==
    /\ game_over /\ is_new_high_score
    /\ time_alive_seconds > 0 /\ high_score_seconds = time_alive_seconds

\* the stats after the step, as the record the LED helpers read
StatsAfter == [hunger |-> hunger', happiness |-> happiness', poo |-> poo']

\* C11 (as claimed): in every step where led_warning_active changes from
\* false to true, the danger level computed from the stats of that moment is
\* strictly greater than 0; stats exactly at a boundary (hunger = 20,
\* happiness = 20, ...) give level 0 and do not begin a warning.
C11_WarningBeginsInDanger ==
    [][(~led_warning_active /\ led_warning_active') =>
          DangerLevel(StatsAfter) > 0]_vars

\* what a handler call leaves behind, button state aside
Effect(s) ==
    << s.hunger, s.happiness, s.poo, s.tick_counter, s.status_message,
       s.game_over, s.death_reason, s.app_should_close, s.show_intro,
       s.led_brightness, s.led_direction, s.led_warning_active,
       s.high_score_seconds, s.game_start_time, s.time_alive_seconds,
       s.is_new_high_score, s.pattern, s.save_calls, s.eye_updated,
       s.minimised >>

EffectAfter ==
    << hunger', happiness', poo', tick_counter', status_message',
       game_over', death_reason', app_should_close', show_intro',
       led_brightness', led_direction', led_warning_active',
       high_score_seconds', game_start_time', time_alive_seconds',
       is_new_high_score', pattern', save_calls', eye_updated',
       ~foreground' >>

\* the button that wins on the current screen: Cancel everywhere, then
\* Up, Right, Confirm while playing, Confirm on the intro and game-over screens
TopButton ==
    IF "CANCEL" \in buttons THEN "CANCEL"
    ELSE IF show_intro \/ game_over THEN "CONFIRM"
    ELSE IF "UP" \in buttons THEN "UP"
    ELSE IF "RIGHT" \in buttons THEN "RIGHT"
    ELSE "CONFIRM"

\* C12: at most one discrete action is consumed per foreground tick, with
\* precedence Cancel > Up (Feed) > Right (Play) > Confirm (Clean): when
\* several buttons are latched on the same tick, the tick has exactly the
\* effect it has with the highest-precedence button alone, and the button
\* state is empty afterwards, so that the others are processed neither on
\* this tick nor on a later one.
C12_OneActionPerTick ==
    [][(ForegroundTick /\ Cardinality(buttons) >= 2 /\ TopButton \in buttons) =>
          /\ EffectAfter = Effect(Update([Self EXCEPT !.buttons = {TopButton}], now))
          /\ buttons' = {}]_vars

\* C12 witness: Up and Confirm were latched together while playing; the pet
\* was fed once, it was not cleaned, and no press is left.
C12_Witness ==
    /\ budget = Session(0, 0, 0, 0, 0, 0)
    /\ ~show_intro /\ ~game_over /\ buttons = {}
    /\ status_message = "Yum!" /\ hunger = 85 /\ happiness = 70 /\ poo = 5

\* a foreground tick with Cancel latched
CancelTick == ForegroundTick /\ "CANCEL" \in buttons

\* C13: Cancel exits within the same tick from any screen: a foreground tick
\* with Cancel latched asks the host to minimise the app in that tick, leaves
\* led_warning_active false, and changes none of hunger, happiness, poo,
\* tick_counter, show_intro, game_over and death_reason; it does not run the
\* eye animation either.
C13_CancelExits ==
    [][CancelTick =>
          /\ ~foreground'
          /\ ~led_warning_active'
          /\ UNCHANGED << hunger, happiness, poo, tick_counter, show_intro,
                          game_over, death_reason >>
          /\ ~eye_updated']_vars

\* C13 witness: the app was closed, reopened while the warning was lit, and
\* closed again with Cancel: the warning is off and the app is minimised.
C13_Witness ==
    /\ budget = Session(0, 0, 0, 0, 0, 0)
    /\ show_intro /\ ~foreground /\ buttons = {}
    /\ DangerLevel(Self) > 0 /\ ~game_over
    /\ ~led_warning_active /\ pattern

\* C14 (as claimed): Cancel on the intro screen or on the game-over screen
\* marks the app for complete closure (app_should_close = true), after which
\* every background tick is a no-op: it changes no stat, no tick counter, no
\* warning state and no survival record.
C14_CancelCloses ==
    [][/\ (CancelTick /\ (show_intro \/ game_over)) => app_should_close'
       /\ (BackgroundTick /\ app_should_close) =>
            UNCHANGED << hunger, happiness, poo, tick_counter,
                         led_warning_active, high_score_seconds,
                         time_alive_seconds, is_new_high_score >>]_vars

\* a tick that counts: any background tick of an app not marked closed, and
\* a foreground tick on the playing screen
CountingTick == (BackgroundTick /\ ~app_should_close) \/ PlayingTick

\* C15: a tick applies decay exactly when it brings tick_counter to 50, and
\* the counter is then reset to 0; hence 0 <= tick_counter < 50 after every
\* tick, and a tick that does not reach the threshold and carries no button
\* press leaves hunger, happiness and poo unchanged.
C15_DecayCadence ==
    [][/\ tick_counter' \in 0..(TICK_RATE - 1)
       /\ (CountingTick /\ tick_counter + 1 = TICK_RATE) =>
            /\ tick_counter' = 0
            /\ buttons = {} =>
                  /\ hunger' = Max(0, hunger - (IF foreground THEN 2 ELSE 1))
                  /\ poo' = Min(100, poo + (IF foreground THEN 3 ELSE 2))
       /\ (CountingTick /\ tick_counter + 1 # TICK_RATE) =>
            /\ tick_counter' = tick_counter + 1
            /\ buttons = {} => UNCHANGED << hunger, happiness, poo >>
       /\ ((ForegroundTick \/ BackgroundTick) /\ ~CountingTick /\ buttons = {}) =>
            UNCHANGED << hunger, happiness, poo, tick_counter >>]_vars

\* C15 witness: the fiftieth tick of a period has applied a foreground decay
\* to the fresh pet and reset the counter.
C15_Witness ==
    /\ ~show_intro /\ ~game_over /\ foreground /\ buttons = {}
    /\ tick_counter = 0 /\ hunger = 68 /\ happiness = 68 /\ poo = 3

\* C16 (as claimed): in every reachable state of the GameOver phase
\* (show_intro false and game_over true), death_reason is non-empty and
\* time_alive_seconds is the time elapsed between the start of that life and
\* the moment of death: it is now - game_start_time at the step that ends the
\* life, and keeps that value for as long as the pet stays game over.
C16_GameOverCarriesRecord ==
    [][(~show_intro' /\ game_over') =>
          /\ death_reason' # ""
          /\ (~game_over /\ game_start_time # None) =>
                time_alive_seconds' = now - game_start_time
          /\ (game_over /\ ~show_intro) =>
                time_alive_seconds' = time_alive_seconds]_vars

\* the decay step of this foreground tick ends the life
DecayCausesDeath ==
    DecayTick /\ DeathCause(HungerAtAction, HappinessAtAction, PooAtAction) # ""

\* C17 (as claimed): on a foreground tick whose decay step causes death, a
\* Feed, Play or Clean button latched on that same tick changes none of
\* hunger, happiness, poo, death_reason and status_message: they are what
\* the decay and its death check left.
C17_NoActionAfterDeath ==
    [][(PlayingTick /\ DecayCausesDeath /\ buttons # {}) =>
          /\ game_over'
          /\ hunger' = HungerAtAction
          /\ happiness' = HappinessAtAction
          /\ poo' = PooAtAction
          /\ death_reason' =
                DeathCause(HungerAtAction, HappinessAtAction, PooAtAction)
          /\ status_message' = status_message]_vars

\* C18 (as claimed): while the pet is game over, ticks drive only the
\* breathing indicator: from the step after game_over becomes true until the
\* restart, every foreground and background tick leaves hunger, happiness and
\* poo unchanged.
C18_GameOverFreezesStats ==
    [][((ForegroundTick \/ BackgroundTick) /\ game_over /\ game_over') =>
          UNCHANGED << hunger, happiness, poo >>]_vars

\* C19 (as claimed): whenever a foreground tick returns with the pet still
\* alive in Playing (show_intro false, game_over false), no death condition
\* holds: 0 < hunger < 100, 0 < happiness < 100 and poo < 100.
C19_AliveMeansNoExtreme ==
    [][(ForegroundTick /\ ~show_intro' /\ ~game_over') =>
          /\ 0 < hunger' /\ hunger' < 100
          /\ 0 < happiness' /\ happiness' < 100
          /\ poo' < 100]_vars

\* the arithmetic the claim gives for _process_decay(hd, pd, pg)
DecayedHunger(hd) == Max(0, hunger - hd)
DecayedPoo(pg) == Min(100, poo + pg)
DecayedHappiness(hd, pd, pg) ==
    LET p0 == Max(0, happiness - pd)
        p1 == IF DecayedHunger(hd) < 30 THEN Max(0, p0 - 5) ELSE p0
    IN IF DecayedPoo(pg) > 50 THEN Max(0, p1 - 5) ELSE p1

DecaysAs(hd, pd, pg) ==
    /\ hunger' = DecayedHunger(hd)
    /\ poo' = DecayedPoo(pg)
    /\ happiness' = DecayedHappiness(hd, pd, pg)
    /\ LET cause == DeathCause(DecayedHunger(hd), DecayedHappiness(hd, pd, pg),
                               DecayedPoo(pg))
       IN /\ game_over' = (game_over \/ cause # "")
          /\ cause # "" => death_reason' = cause

\* C20: _process_decay(hd, pd, pg) computes hunger' = max(0, hunger - hd),
\* poo' = min(100, poo + pg), and happiness' = max(0, happiness - pd) lowered
\* by a further 5 (floored at 0) if hunger' < 30 and by a further 5 (floored
\* at 0) if poo' > 50, the penalties being evaluated on the hunger and poo of
\* after the decay; then it runs the death check.  The foreground decay uses
\* (2, 2, 3) and the background decay (1, 1, 2).
C20_ProcessDecay ==
    [][/\ ForegroundDecayTick => DecaysAs(2, 2, 3)
       /\ BackgroundDecayTick => DecaysAs(1, 1, 2)]_vars

\* C20 witness: the foreground decay that took hunger from 30 to 28 and poo
\* to 63 applied both penalties to a happiness of 10, which the floor kept
\* at 0, and the death check ended the life.
C20_Witness ==
    /\ foreground /\ ~show_intro /\ game_over /\ death_reason = SAD_DEATH
    /\ hunger = 28 /\ poo = 63 /\ happiness = 0 /\ tick_counter = 0

\* C21 (as claimed): the danger signal is re-evaluated on the decay boundary
\* in foreground mode: after a foreground decay tick in Playing that leaves
\* the pet alive with a stat inside a danger zone (hunger or happiness below
\* 20 or above 80, or poo above 80), led_warning_active is true; and when the
\* warning is active and all stats are back at level 0, a foreground decay
\* tick ends it.
C21_ForegroundDangerSignal ==
    [][(PlayingTick /\ DecayTick /\ ~game_over') =>
          /\ DangerLevel(StatsAfter) > 0 => led_warning_active'
          /\ (led_warning_active /\ DangerLevel(StatsAfter) = 0) =>
                ~led_warning_active']_vars

\* C22: after a foreground decay tick that leaves the pet alive and consumes
\* no action, status_message is the hungry message if hunger < 30, else the
\* needs-cleaning message if poo > 50, else the bored message if
\* happiness < 30, else the contented message; when the decay step caused
\* death it does not rewrite the message.
C22_StatusMessagePriority ==
    [][ForegroundDecayTick =>
          IF game_over' THEN status_message' = status_message
          ELSE status_message' =
                 CASE hunger' < 30 -> "I'm hungry!"
                   [] hunger' >= 30 /\ poo' > 50 -> "I'm gunna Poo!"
                   [] hunger' >= 30 /\ poo' <= 50 /\ happiness' < 30
                        -> "Urgh, I'm Bored!"
                   [] OTHER -> "This is Great!"]_vars

\* C22 witness: a foreground decay left the pet alive, dirty and bored at
\* once, and the message is the one about the poo.
C22_Witness ==
    /\ foreground /\ ~show_intro /\ ~game_over /\ tick_counter = 0
    /\ hunger >= 30 /\ poo > 50 /\ happiness < 30
    /\ status_message = "I'm gunna Poo!"

\* a foreground tick on the game-over screen that Cancel does not pre-empt
GameOverTick ==
    ForegroundTick /\ ~show_intro /\ game_over /\ "CANCEL" \notin buttons

C24_NoWarningWhenGameOver == game_over => ~led_warning_active

\* C24 witness: the pet left on the intro screen died in the background,
\* where the warning was lit from happiness 15 on, and the warning is off.
C24_Witness ==
    /\ budget = Session(0, 0, 0, 0, 1, 0)
    /\ show_intro /\ ~foreground /\ game_over /\ happiness = 0
    /\ ~led_warning_active

\* C25: an unattended pet eventually dies: from any Playing state, if ticks
\* keep being delivered (foreground ticks while the app is open, background
\* ticks while it is minimised) and no button is pressed any more, game_over
\* eventually becomes true.
C25_UnattendedPetDies ==
    (~show_intro /\ ~game_over /\ buttons = {}) ~> (game_over \/ buttons # {})

\* C25 witness: the pet was started, minimised and reopened, no press is
\* left, and it has died.
C25_Witness ==
    /\ \A b \in ButtonNames : budget[b] = 0
    /\ budget["LAUNCH"] = 0 /\ buttons = {}
    /\ ~show_intro /\ game_over /\ game_start_time # None

====
